---- MODULE Spec2Model ----
(***************************************************************************)
(* Model of scripts/akshare_fund_flow.py: one run of the command-line      *)
(* program that classifies a ticker, asks the provider for the fund-flow   *)
(* frame, normalises its last row and prints one JSON object.              *)
(*                                                                         *)
(* A Python str is a sequence of one-character strings.  A DataFrame is    *)
(* the sequence of its rows; a row is a function from the frame's column   *)
(* names to cells.  A cell, like every Python value that float() can be    *)
(* handed, is a record [kind, v].  A dict is the sequence of its           *)
(* <<key, value>> items in insertion order.                                *)
(***************************************************************************)
EXTENDS Naturals, Sequences, FiniteSets, TLC

VARIABLES pc, argv, provider, stock_code, market, fund_flow_data,
          stdout, stderr, providerCalls, exitCode

vars == <<pc, argv, provider, stock_code, market, fund_flow_data,
          stdout, stderr, providerCalls, exitCode>>

----------------------------------------------------------------------------
(* Bounds of the explored inputs *)

MaxLabels == 2
MaxDigits == 2
MaxEarlier == 1
MaxExtraArgs == 1

----------------------------------------------------------------------------
(* Strings *)

Digits == {"0", "1", "3", "5", "6", "8"}

SH == <<"S", "H">>
SZ == <<"S", "Z">>

LabelParts == {SH, SZ, <<"s", "h">>, <<"9">>}

SeqsUpTo(S, n) == UNION {[1..k -> S] : k \in 0..n}

RECURSIVE Concat(_)
Concat(ss) == IF ss = <<>> THEN <<>> ELSE Head(ss) \o Concat(Tail(ss))

\* str.startswith(prefix)
StartsWith(s, prefix) ==
    /\ Len(s) >= Len(prefix)
    /\ SubSeq(s, 1, Len(prefix)) = prefix

\* s[2:]
SliceFrom2(s) == SubSeq(s, 3, Len(s))

----------------------------------------------------------------------------
(* Cells and float() *)

IntCell(n) == [kind |-> "int", v |-> n]
FloatCell(n) == [kind |-> "float", v |-> n]
NumStrCell(n) == [kind |-> "numstr", v |-> n]    \* a str such as '12.5'
TextCell == [kind |-> "text", v |-> 0]           \* a str such as '-'
NoneCell == [kind |-> "none", v |-> 0]           \* None

\* float(x) returns; otherwise it raises ValueError or TypeError
FloatConvertible(x) == x.kind \in {"int", "float", "numstr"}

\* float(x), for a convertible x
Float(x) == [kind |-> "float", v |-> x.v]

FloatError(x) == IF x.kind = "none" THEN "TypeError" ELSE "ValueError"

----------------------------------------------------------------------------
(* The eight output keys and the provider column each is read from.        *)
(* Column names stand for the provider's:                                  *)
(*   zhuli_jingliuru_jinge      主力净流入-净额                            *)
(*   chaodadan_jingliuru_jinge  超大单净流入-净额                          *)
(*   dadan_jingliuru_jinge      大单净流入-净额                            *)
(*   zhongdan_jingliuru_jinge   中单净流入-净额                            *)
(*   xiaodan_jingliuru_jinge    小单净流入-净额                            *)
(*   zhuli_jingliuru_jingzhanbi 主力净流入-净占比                          *)
(*   zhuli_mairu_chengjiaoe     主力买入成交额                             *)
(*   zhuli_maichu_chengjiaoe    主力卖出成交额                             *)
(*   riqi                       日期 (always present, never read)          *)

FieldMap ==
    << <<"main_net_inflow", "zhuli_jingliuru_jinge">>,
       <<"super_large_net_inflow", "chaodadan_jingliuru_jinge">>,
       <<"large_net_inflow", "dadan_jingliuru_jinge">>,
       <<"medium_net_inflow", "zhongdan_jingliuru_jinge">>,
       <<"small_net_inflow", "xiaodan_jingliuru_jinge">>,
       <<"net_inflow_ratio", "zhuli_jingliuru_jingzhanbi">>,
       <<"active_buy_amount", "zhuli_mairu_chengjiaoe">>,
       <<"active_sell_amount", "zhuli_maichu_chengjiaoe">> >>

Columns == {FieldMap[i][2] : i \in 1..Len(FieldMap)}

DateColumn == "riqi"

\* the position of a column among the eight, used as its cell's number
ColumnNo(c) == CHOOSE i \in 1..Len(FieldMap) : FieldMap[i][2] = c

----------------------------------------------------------------------------
(* Python values of the run *)

None == [isNone |-> TRUE, items |-> <<>>]
Dict(items) == [isNone |-> FALSE, items |-> items]

\* the truth value of `if fund_flow_data:`
Truthy(d) == ~d.isNone /\ Len(d.items) > 0

NoMarket == "none"

----------------------------------------------------------------------------
(* get_fund_flow_data *)

\* Market without the '51' test of line 23
MarketNo51(code) ==
    IF StartsWith(code, <<"6", "0">>) \/ StartsWith(code, <<"6", "8">>)
    THEN "sh"
    ELSE IF StartsWith(code, <<"0", "0">>) \/ StartsWith(code, <<"3", "0">>)
         THEN "sz"
         ELSE NoMarket

\* Market with 'sz' in place of the `return None` of line 28
MarketDefaultSz(code) ==
    IF \/ StartsWith(code, <<"6", "0">>)
       \/ StartsWith(code, <<"6", "8">>)
       \/ StartsWith(code, <<"5", "1">>)
    THEN "sh"
    ELSE "sz"

\* lines 23-28: the market of a stock code, or NoMarket for `return None`
Market(code) ==
    IF \/ StartsWith(code, <<"6", "0">>)
       \/ StartsWith(code, <<"6", "8">>)
       \/ StartsWith(code, <<"5", "1">>)
    THEN "sh"
    ELSE IF StartsWith(code, <<"0", "0">>) \/ StartsWith(code, <<"3", "0">>)
         THEN "sz"
         ELSE NoMarket

\* df.empty, for a frame that has at least the date column
Empty(df) == Len(df) = 0

\* df.iloc[0] in place of line 37's df.iloc[-1]
FirstRow(df) == df[1]

\* line 37: df.iloc[-1]
LatestData(df) == df[Len(df)]

\* latest_data.get(column), which leaves the default out
GetOrNone(row, column, default) ==
    IF column \in DOMAIN row THEN row[column] ELSE NoneCell

\* latest_data.get(column, default)
Get(row, column, default) ==
    IF column \in DOMAIN row THEN row[column] ELSE default

\* the argument of the i-th float(...) of lines 41-48
FieldValue(latest, i) == Get(latest, FieldMap[i][2], IntCell(0))

\* the float(...) calls of lines 41-48 that raise
Failing(latest) ==
    {i \in 1..Len(FieldMap) : ~FloatConvertible(FieldValue(latest, i))}

FirstOf(S) == CHOOSE i \in S : \A j \in S : i <= j

\* lines 40-49, when no float(...) raises
fund_flow(latest) ==
    [i \in 1..Len(FieldMap) |->
        <<FieldMap[i][1], Float(FieldValue(latest, i))>>]

\* an except clause that prints nothing
NoErrorLine(code, detail) == <<>>

\* line 54: what the except clause prints to sys.stderr
ErrorLine(code, detail) ==
    << [text |-> "Error getting fund flow data for",
        stock_code |-> code,
        detail |-> detail] >>

\* lines 33-55 for a provider call that returned df: the value returned and
\* the lines written to sys.stderr
Normalize(code, df) ==
    IF Empty(df)
    THEN [ret |-> None, err |-> <<>>]
    ELSE LET latest_data == LatestData(df)
         IN  IF Failing(latest_data) # {}
             THEN [ret |-> None,
                   err |-> ErrorLine(code,
                       FloatError(FieldValue(latest_data,
                                             FirstOf(Failing(latest_data)))))]
             ELSE [ret |-> Dict(fund_flow(latest_data)), err |-> <<>>]

----------------------------------------------------------------------------
(* main *)

\* a test that lets extra arguments through
WrongArgCountBelow(args) == Len(args) < 2

\* line 59
WrongArgCount(args) == Len(args) # 2

UsageLine == [kind |-> "usage", members |-> <<>>]

\* a strip that knows only 'SH'
StripOnlySH(input) ==
    IF StartsWith(input, SH) THEN SliceFrom2(input) ELSE input

\* lines 66-69
StripPrefix(input) ==
    IF StartsWith(input, SH) \/ StartsWith(input, SZ)
    THEN SliceFrom2(input)
    ELSE input

\* lines 76-85: the dict literal of the else branch
ZeroSnapshot ==
    Dict(<< <<"main_net_inflow", IntCell(0)>>,
            <<"super_large_net_inflow", IntCell(0)>>,
            <<"large_net_inflow", IntCell(0)>>,
            <<"medium_net_inflow", IntCell(0)>>,
            <<"small_net_inflow", IntCell(0)>>,
            <<"net_inflow_ratio", IntCell(0)>>,
            <<"active_buy_amount", IntCell(0)>>,
            <<"active_sell_amount", IntCell(0)>> >>)

\* json.dumps of a number: a float prints with a fraction or an exponent
\* ('0.0'), an int prints without ('0')
JsonNumber(x) ==
    [lit |-> IF x.kind = "float" THEN "decimal" ELSE "integer", v |-> x.v]

\* json.dumps of a dict of numbers, or of None ('null')
JsonDumps(d) ==
    IF d.isNone
    THEN [kind |-> "null", members |-> <<>>]
    ELSE [kind |-> "object",
          members |-> [i \in 1..Len(d.items) |->
                          [key |-> d.items[i][1],
                           number |-> JsonNumber(d.items[i][2])]]]

\* a print without the else branch of lines 75-85
PrintedNoFallback(data) == JsonDumps(data)

\* lines 73-85: the line printed to sys.stdout
Printed(data) ==
    IF Truthy(data) THEN JsonDumps(data) ELSE JsonDumps(ZeroSnapshot)

----------------------------------------------------------------------------
(* Inputs: command lines and provider behaviours *)

ScriptName == <<"akshare_fund_flow.py">>

Tickers ==
    {Concat(l) \o d : l \in SeqsUpTo(LabelParts, MaxLabels),
                      d \in SeqsUpTo(Digits, MaxDigits)}

SH600000 == <<"S", "H", "6", "0", "0", "0", "0", "0">>
T000001 == <<"0", "0", "0", "0", "0", "1">>

FewTickers == {SH600000, T000001}

AllArgv ==
    {<<ScriptName>>}
    \cup {<<ScriptName, t>> : t \in Tickers \cup FewTickers}
    \cup {<<ScriptName, t>> \o e :
            t \in FewTickers,
            e \in SeqsUpTo(FewTickers, MaxExtraArgs) \ {<<>>}}

FewArgv == {<<ScriptName, SH600000>>}

Raising(detail) == [raises |-> TRUE, detail |-> detail, frame |-> <<>>]
Returning(df) == [raises |-> FALSE, detail |-> "", frame |-> df]

\* the date column holds the day's number as text; it is never read
DateCell(day) == [kind |-> "text", v |-> day]

\* a row of the given day over the date column and the columns cols, filled
\* by the function cells
Row(cols, cells, day) ==
    [c \in cols \cup {DateColumn} |->
        IF c = DateColumn THEN DateCell(day) ELSE cells[c]]

\* what each of the eight columns does in the last row: it is absent from the
\* frame, holds its own number, or holds text
Choices == [Columns -> {"absent", "number", "text"}]

Present(choice) == {c \in Columns : choice[c] # "absent"}

LastCell(choice, c) ==
    IF choice[c] = "text" THEN TextCell ELSE IntCell(ColumnNo(c))

\* in the frames below every earlier row holds 0 in each column and the
\* rows come by ascending date, as the provider returns them
EarlierCell == IntCell(0)

\* a frame of n earlier rows and the last row, all over the same columns
FrameOf(choice, n) ==
    [i \in 1..(n + 1) |->
        IF i <= n
        THEN Row(Present(choice), [c \in Columns |-> EarlierCell], i)
        ELSE Row(Present(choice), [c \in Columns |-> LastCell(choice, c)],
                 i)]

Frames ==
    {<<>>} \cup
    {FrameOf(choice, n) : choice \in Choices, n \in 0..MaxEarlier}

AllProviders == {Raising("ConnectionError")} \cup {Returning(df) : df \in Frames}

FullRow(cells, day) == Row(Columns, cells, day)

FewProviders ==
    { Raising("ConnectionError"),
      Returning(<<>>),
      Returning(<<FullRow([c \in Columns |-> TextCell], 2),
                  FullRow([c \in Columns |-> FloatCell(ColumnNo(c))], 1)>>),
      Returning(<<FullRow([c \in Columns |-> NumStrCell(ColumnNo(c))], 1)>>),
      Returning(<<FullRow([c \in Columns |-> IF ColumnNo(c) = Len(FieldMap)
                                     THEN NoneCell
                                     ELSE IntCell(ColumnNo(c))], 1)>>) }

----------------------------------------------------------------------------
(* The run *)

Init ==
    /\ \/ argv \in AllArgv /\ provider \in FewProviders
       \/ argv \in FewArgv /\ provider \in AllProviders
    /\ pc = "main"
    /\ stock_code = <<>>
    /\ market = NoMarket
    /\ fund_flow_data = None
    /\ stdout = <<>>
    /\ stderr = <<>>
    /\ providerCalls = <<>>
    /\ exitCode = <<>>

\* lines 59-61
Usage ==
    /\ pc = "main"
    /\ WrongArgCount(argv)
    /\ stdout' = Append(stdout, UsageLine)
    /\ exitCode' = <<1>>
    /\ pc' = "exited"
    /\ UNCHANGED <<argv, provider, stock_code, market, fund_flow_data,
                   stderr, providerCalls>>

\* lines 63-71: the argument is stripped and get_fund_flow_data is entered
Strip ==
    /\ pc = "main"
    /\ ~WrongArgCount(argv)
    /\ stock_code' = StripPrefix(argv[2])
    /\ pc' = "classify"
    /\ UNCHANGED <<argv, provider, market, fund_flow_data, stdout, stderr,
                   providerCalls, exitCode>>

\* lines 23-28, no market: return None
Unsupported ==
    /\ pc = "classify"
    /\ Market(stock_code) = NoMarket
    /\ fund_flow_data' = None
    /\ pc' = "emit"
    /\ UNCHANGED <<argv, provider, stock_code, market, stdout, stderr,
                   providerCalls, exitCode>>

\* lines 23-26, a market: go on to the provider call
Classified ==
    /\ pc = "classify"
    /\ Market(stock_code) # NoMarket
    /\ market' = Market(stock_code)
    /\ pc' = "fetch"
    /\ UNCHANGED <<argv, provider, stock_code, fund_flow_data, stdout,
                   stderr, providerCalls, exitCode>>

\* line 31 raises; lines 53-55
FetchRaises ==
    /\ pc = "fetch"
    /\ provider.raises
    /\ providerCalls' =
          Append(providerCalls, [stock |-> stock_code, market |-> market])
    /\ stderr' = stderr \o ErrorLine(stock_code, provider.detail)
    /\ fund_flow_data' = None
    /\ pc' = "emit"
    /\ UNCHANGED <<argv, provider, stock_code, market, stdout, exitCode>>

\* line 31 returns; lines 33-55
FetchReturns ==
    /\ pc = "fetch"
    /\ ~provider.raises
    /\ providerCalls' =
          Append(providerCalls, [stock |-> stock_code, market |-> market])
    /\ LET r == Normalize(stock_code, provider.frame)
       IN  /\ fund_flow_data' = r.ret
           /\ stderr' = stderr \o r.err
    /\ pc' = "emit"
    /\ UNCHANGED <<argv, provider, stock_code, market, stdout, exitCode>>

\* lines 73-85, and the normal end of the process
Emit ==
    /\ pc = "emit"
    /\ stdout' = Append(stdout, Printed(fund_flow_data))
    /\ exitCode' = <<0>>
    /\ pc' = "exited"
    /\ UNCHANGED <<argv, provider, stock_code, market, fund_flow_data,
                   stderr, providerCalls>>

Next ==
    \/ Usage
    \/ Strip
    \/ Unsupported
    \/ Classified
    \/ FetchRaises
    \/ FetchReturns
    \/ Emit

Spec == Init /\ [][Next]_vars

----------------------------------------------------------------------------
(* Vocabulary of the properties, written from the documented contract *)

OneArg == Len(argv) = 2

Exited == pc = "exited"

\* the provider has been called and has answered
Fetched == pc \in {"emit", "exited"} /\ providerCalls # <<>>

\* the eight canonical keys, in the documented order
SnapshotKeys ==
    <<"main_net_inflow", "super_large_net_inflow", "large_net_inflow",
      "medium_net_inflow", "small_net_inflow", "net_inflow_ratio",
      "active_buy_amount", "active_sell_amount">>

\* the provider column each canonical key stands for
SnapshotColumns ==
    <<"zhuli_jingliuru_jinge", "chaodadan_jingliuru_jinge",
      "dadan_jingliuru_jinge", "zhongdan_jingliuru_jinge",
      "xiaodan_jingliuru_jinge", "zhuli_jingliuru_jingzhanbi",
      "zhuli_mairu_chengjiaoe", "zhuli_maichu_chengjiaoe">>

\* a printed line is one JSON object with exactly the eight keys, in order
IsSnapshotLine(l) ==
    /\ l.kind = "object"
    /\ Len(l.members) = Len(SnapshotKeys)
    /\ \A i \in 1..Len(SnapshotKeys) : l.members[i].key = SnapshotKeys[i]

IsAllZeroLine(l) ==
    /\ IsSnapshotLine(l)
    /\ \A i \in 1..Len(SnapshotKeys) : l.members[i].number.v = 0

\* the exchange a stock code belongs to by its first two characters
Exchange(code) ==
    IF Len(code) < 2 THEN "none"
    ELSE IF code[1] = "6" /\ code[2] \in {"0", "8"} THEN "sh"
    ELSE IF code[1] = "5" /\ code[2] = "1" THEN "sh"
    ELSE IF code[1] \in {"0", "3"} /\ code[2] = "0" THEN "sz"
    ELSE "none"

\* the provider calls a run makes for a stock code
CallsFor(code) ==
    IF Exchange(code) = "none"
    THEN <<>>
    ELSE <<[stock |-> code, market |-> Exchange(code)]>>

\* the provider returned a frame with at least one row
NonEmptySeries == ~provider.raises /\ Len(provider.frame) > 0

LastRow == provider.frame[Len(provider.frame)]

Convertible(cell) == cell.kind \in {"int", "float", "numstr"}

\* the eight source fields the last row lacks, and those it cannot convert
MissingFields == {i \in 1..Len(SnapshotColumns) : SnapshotColumns[i] \notin DOMAIN LastRow}

BadFields ==
    {i \in 1..Len(SnapshotColumns) :
        /\ SnapshotColumns[i] \in DOMAIN LastRow
        /\ ~Convertible(LastRow[SnapshotColumns[i]])}

----------------------------------------------------------------------------

\* C1: a run with exactly one argument always goes on to exit with code 0
\* after printing exactly one JSON object with the eight snapshot keys,
\* whatever the provider does and whatever the last row holds; it never
\* stops before that and never exits with another code.
C1_AlwaysSnapshotAndExitZero ==
    OneArg =>
        /\ ~Exited => ENABLED Next
        /\ ~Exited => exitCode = <<>>
        /\ Exited =>
              /\ exitCode = <<0>>
              /\ Len(stdout) = 1
              /\ IsSnapshotLine(stdout[1])

C1_Witness ==
    /\ OneArg /\ Exited /\ Fetched
    /\ NonEmptySeries
    /\ BadFields # {}
    /\ exitCode = <<0>>

\* C2: with an argument count other than one, the run prints the usage line
\* to standard output and exits with code 1; it prints no JSON and never
\* calls the provider.
C2_UsageError ==
    ~OneArg =>
        /\ pc \in {"main", "exited"}
        /\ providerCalls = <<>>
        /\ \A i \in 1..Len(stdout) : stdout[i].kind = "usage"
        /\ pc = "main" => ENABLED Usage
        /\ Exited => stdout = <<UsageLine>> /\ exitCode = <<1>>

C2_Witness == Len(argv) > 2 /\ Exited /\ exitCode = <<1>>

\* C3: each field is resolved on its own: for a non-empty series the printed
\* snapshot has 0 for exactly the fields the last row cannot convert and the
\* row's value for every other field it holds.
C3_FieldsIndependent ==
    (OneArg /\ Exited /\ Fetched /\ NonEmptySeries) =>
        /\ IsSnapshotLine(stdout[1])
        /\ \A i \in 1..Len(SnapshotColumns) :
              stdout[1].members[i].number.v =
                 IF i \in BadFields \cup MissingFields
                 THEN 0
                 ELSE LastRow[SnapshotColumns[i]].v

\* C4: for a non-empty series whose last row lacks some of the eight fields
\* and holds convertible numbers in the others, the printed snapshot has all
\* eight keys, 0 for every missing field and the row's value for every
\* present one.
C4_MissingFieldsZero ==
    (OneArg /\ Exited /\ Fetched /\ NonEmptySeries /\ BadFields = {}) =>
        /\ Len(stdout) = 1
        /\ IsSnapshotLine(stdout[1])
        /\ \A i \in 1..Len(SnapshotColumns) :
              stdout[1].members[i].number.v =
                 IF i \in MissingFields
                 THEN 0
                 ELSE LastRow[SnapshotColumns[i]].v

C4_Witness ==
    /\ OneArg /\ Exited /\ Fetched /\ NonEmptySeries /\ BadFields = {}
    /\ MissingFields # {}
    /\ MissingFields # 1..Len(SnapshotColumns)

\* C5: classification is total over the stock code: 60, 68 and 51 go to the
\* provider with market 'sh', 00 and 30 with market 'sz', every other string
\* (the empty one included) is unsupported; exactly one outcome applies and
\* the run goes on.
C5_ClassificationTotal ==
    /\ pc = "classify" => (ENABLED Unsupported) # (ENABLED Classified)
    /\ pc = "fetch" =>
          /\ market = Exchange(stock_code)
          /\ market \in {"sh", "sz"}
    /\ pc \in {"emit", "exited"} /\ OneArg => providerCalls = CallsFor(stock_code)

C5_Witness ==
    /\ Exited
    /\ StartsWith(stock_code, <<"5", "1">>)
    /\ providerCalls = <<[stock |-> stock_code, market |-> "sh"]>>

\* C6: no run calls the provider more than once; when the call raises, the
\* run writes the one diagnostic line for the stock code with the
\* exception's detail, then prints the all-zero snapshot and exits with 0.
C6_ProviderFailure ==
    /\ Len(providerCalls) <= 1
    /\ (OneArg /\ provider.raises /\ Fetched) =>
          /\ stderr = << [text |-> "Error getting fund flow data for",
                          stock_code |-> stock_code,
                          detail |-> provider.detail] >>
          /\ Exited =>
                /\ Len(stdout) = 1
                /\ IsAllZeroLine(stdout[1])
                /\ exitCode = <<0>>

C6_Witness ==
    /\ OneArg /\ Exited /\ provider.raises
    /\ Len(providerCalls) = 1
    /\ Len(stderr) = 1

\* C7: an unsupported stock code (after stripping) short-circuits silently:
\* no provider call, nothing on the error stream, the all-zero snapshot and
\* exit code 0.
C7_UnsupportedSilent ==
    (OneArg /\ pc \in {"emit", "exited"} /\ Exchange(stock_code) = "none") =>
        /\ providerCalls = <<>>
        /\ stderr = <<>>
        /\ Exited =>
              /\ Len(stdout) = 1
              /\ IsAllZeroLine(stdout[1])
              /\ exitCode = <<0>>

C7_Witness ==
    /\ OneArg /\ Exited
    /\ Exchange(stock_code) = "none"
    /\ stock_code # argv[2]
    /\ Len(stock_code) >= 2

\* C8: every JSON line printed has the eight keys in the same order and
\* every value printed as a floating-point number, on the row path and on
\* the all-zero fallback path alike.
C8_FixedShape ==
    \A i \in 1..Len(stdout) :
        stdout[i].kind # "usage" =>
            /\ IsSnapshotLine(stdout[i])
            /\ \A k \in 1..Len(SnapshotKeys) :
                  stdout[i].members[k].number.lit = "decimal"

----------------------------------------------------------------------------
(* C9 *)

HasLabel(s) == Len(s) >= 2 /\ s[1] = "S" /\ s[2] \in {"H", "Z"}

AfterLabel(s) == [i \in 1..(Len(s) - 2) |-> s[i + 2]]

\* C9: a leading 'SH' or 'SZ' (upper case, two characters, once) is dropped
\* and the rest alone decides the classification: for a digit string d the
\* arguments d, 'SH'+d and 'SZ'+d all give stock code d and the provider
\* call that d gives.
C9_LabelDiscarded ==
    (OneArg /\ pc # "main") =>
        LET d == IF HasLabel(argv[2]) THEN AfterLabel(argv[2]) ELSE argv[2]
        IN  /\ stock_code = d
            /\ pc = "fetch" => market = Exchange(d)
            /\ pc \in {"emit", "exited"} => providerCalls = CallsFor(d)

C9_Witness ==
    /\ OneArg /\ Exited
    /\ argv[2] = SZ \o <<"6", "0">>
    /\ providerCalls = <<[stock |-> <<"6", "0">>, market |-> "sh"]>>

----------------------------------------------------------------------------
(* C10 *)

\* what the earlier rows of another series may hold, and their days
EarlierFills == {TextCell, IntCell(0)}

EarlierDays(last) == {0, last[DateColumn].v + 1}

\* the series of up to MaxEarlier + 1 earlier rows, dated before or after
\* the given row, that end with that row
SameLastRow(last) ==
    {[i \in 1..Len(fills) |->
         Row(DOMAIN last \ {DateColumn}, [c \in Columns |-> fills[i]], day)]
       \o <<last>> :
        fills \in SeqsUpTo(EarlierFills, MaxEarlier + 1),
        day \in EarlierDays(last)}

\* C10: for a non-empty series the printed snapshot depends on the last row
\* alone: every series with the same last row, whatever its length, its
\* earlier rows and their dates (no re-sorting), yields the same printed
\* line and the same diagnostics.
C10_LastRowOnly ==
    (OneArg /\ Exited /\ Fetched /\ NonEmptySeries) =>
        \A other \in SameLastRow(LastRow) :
            Len(other) > 0 =>
                LET r == Normalize(stock_code, other)
                IN  /\ stdout = <<Printed(r.ret)>>
                    /\ stderr = r.err

C10_Witness ==
    /\ OneArg /\ Exited /\ Fetched /\ NonEmptySeries
    /\ Len(provider.frame) > 1
    /\ BadFields = {}
    /\ provider.frame[1] # LastRow
    /\ provider.frame[1][DateColumn].v > LastRow[DateColumn].v
    /\ ~IsAllZeroLine(stdout[1])

====
